---- MODULE Spec2Model ----
(***************************************************************************)
(* A model of invokeai/app/invocations/latent.py: the latent invocations   *)
(* of the image-generation graph (scheduler selection, timestep windowing, *)
(* the model-resource lifecycle of the denoise node, latent resizing and   *)
(* the VAE tiling policy of the decoder).                                  *)
(*                                                                         *)
(* Tensors, models and images are external; the model keeps what the code  *)
(* of this file decides: which timesteps are kept, which resources are     *)
(* held, which arguments are passed on.                                    *)
(***************************************************************************)
EXTENDS Integers, Sequences, FiniteSets, TLC

(***************************************************************************)
(* Bounds of the model.                                                    *)
(***************************************************************************)
\* scheduler.config.num_train_timesteps ranges over 1..MaxTrain
MaxTrain == 3
\* a scheduler's timestep list has 1..MaxLen entries
MaxLen == 3
\* the steps field ranges over 1..MaxSteps
MaxSteps == 2
\* scheduler.order ranges over 1..MaxOrder
MaxOrder == 3
\* denoising_start and denoising_end are k/Denom, k in 0..Denom
Denom == 4
\* a cfg_scale value ranges over 0..MaxCfg
MaxCfg == 3
\* a cfg_scale list has 0..MaxCfgLen entries
MaxCfgLen == 3
\* the width and height of a resize range over MinDim-LatentScale..MaxDim
MaxDim == 72
\* the latents handed to a resize or a scale are 1..MaxLatent high and wide
MaxLatent == 2
\* scale_factor is k/ScaleDenom, k in 1..MaxScale
ScaleDenom == 2
MaxScale == 4
\* the log of VAE invocations holds up to MaxVaeCalls entries
MaxVaeCalls == 3
\* a control list has 0..MaxControls entries
MaxControls == 2
\* the UNet names 0..MaxLoras LoRAs
MaxLoras == 1

(***************************************************************************)
(* Constants of the program                                                *)
(***************************************************************************)
\* pixels per latent cell in build_latents_output
LatentScale == 8
\* the divisor of ResizeLatentsInvocation.invoke
ResizeDivisor == 8
\* ge=64 of the width and height fields
MinDim == 64

VARIABLES
    \* ---- init_scheduler
    scheduler,      \* the scheduler object handed to init_scheduler
    is_call,        \* the last call of init_scheduler: arguments and results
    \* ---- the cfg_scale validator
    cfg_scale,      \* the value given for the cfg_scale field
    ge_one_result,  \* what the validator did with it
    \* ---- get_scheduler
    orig_scheduler, \* the config of the scheduler the model manager hands out
    original_config,  \* the config the stored scheduler had before any selection
    gs_result,      \* the last call of get_scheduler: argument and results
    \* ---- ResizeLatentsInvocation and ScaleLatentsInvocation
    rz_node,        \* the node invoked: its fields and the latents it names
    rz_result,      \* the interpolate call it made and the output it built
    \* ---- LatentsToImageInvocation and ImageToLatentsInvocation
    vae,            \* the VAE the model manager shares between invocations
    tiled_decode,   \* context.services.configuration.tiled_decode
    use_torch_2_0_or_xformers,  \* the kind of the VAE's attention processor
    vae_log,        \* the decodes and encodes run so far, oldest first
    \* ---- DenoiseLatentsInvocation.invoke
    pc,             \* the position of invoke
    node,           \* the fields of the node that steer invoke
    error,          \* the stage whose exception is propagating, or "none"
    held,           \* the model contexts entered and not exited, oldest first
    lora_patched,   \* whether the LoRA patch is applied to the UNet
    exit_stack,     \* the contexts exit_stack will exit, oldest first
    acquired,       \* everything invoke acquired so far, in order
    released,       \* everything invoke released so far, in order
    control_data    \* the list prep_control_data is building, or None

isVars == <<scheduler, is_call>>
cfgVars == <<cfg_scale, ge_one_result>>
gsVars == <<orig_scheduler, original_config, gs_result>>
rzVars == <<rz_node, rz_result>>
vaeVars == <<vae, tiled_decode, use_torch_2_0_or_xformers, vae_log>>
invVars == <<pc, node, error, held, lora_patched, exit_stack, acquired,
             released, control_data>>

vars == <<isVars, cfgVars, gsVars, rzVars, vaeVars, invVars>>

\* what an action of one part leaves alone: the other parts
notIs == <<cfgVars, gsVars, rzVars, vaeVars, invVars>>
notCfg == <<isVars, gsVars, rzVars, vaeVars, invVars>>
notGs == <<isVars, cfgVars, rzVars, vaeVars, invVars>>
notRz == <<isVars, cfgVars, gsVars, vaeVars, invVars>>
notVae == <<isVars, cfgVars, gsVars, rzVars, invVars>>
notInv == <<cfgVars, rzVars, vaeVars>>

(***************************************************************************)
(* Sequence helpers (Python slicing and filtering)                         *)
(***************************************************************************)
\* seq[n:] : slicing clamps, so n may exceed the length
DropFirst(seq, n) ==
    IF n >= Len(seq) THEN <<>> ELSE SubSeq(seq, n + 1, Len(seq))

\* seq[:n]
TakeFirst(seq, n) ==
    IF n >= Len(seq) THEN seq ELSE SubSeq(seq, 1, n)

\* len(list(filter(lambda ts: ts >= val, seq)))
CountGe(seq, val) ==
    Cardinality({i \in 1..Len(seq) : seq[i] >= val})

\* All sequences over S of length lo..hi
SeqsOf(S, lo, hi) ==
    UNION {[1..n -> S] : n \in lo..hi}

(***************************************************************************)
(* init_scheduler                                                          *)
(***************************************************************************)
\* Python's round() on the exact value p/q (q > 0, p >= 0): to the nearest
\* integer, a tie going to the even one.
Round(p, q) ==
    LET f == p \div q
        r == p % q
    IN  IF 2 * r < q THEN f
        ELSE IF 2 * r > q THEN f + 1
        ELSE IF f % 2 = 0 THEN f ELSE f + 1

\* int(round(num_train_timesteps * (1 - denoising))), denoising = d/Denom
TVal(num_train_timesteps, d) ==
    Round(num_train_timesteps * (Denom - d), Denom)

ApplyDenoisingStart_KeepAll(order, timesteps, t_start_val) ==
    DropFirst(timesteps, CountGe(timesteps, t_start_val))

ApplyDenoisingStart_AlwaysSkip(order, timesteps, t_start_val) ==
    LET cut == DropFirst(timesteps, CountGe(timesteps, t_start_val))
    IN  IF order = 2 THEN DropFirst(cut, 1) ELSE cut

ApplyDenoisingStart_Gt(order, timesteps, t_start_val) ==
    LET t_start_idx == CountGe(timesteps, t_start_val + 1)
        cut == DropFirst(timesteps, t_start_idx)
    IN  IF order = 2 /\ t_start_idx > 0 THEN DropFirst(cut, 1) ELSE cut

\* apply denoising_start: drop the leading count of timesteps >= t_start_val,
\* and one more for a second-order scheduler when something was dropped
ApplyDenoisingStart(order, timesteps, t_start_val) ==
    LET t_start_idx == CountGe(timesteps, t_start_val)
        cut == DropFirst(timesteps, t_start_idx)
    IN  IF order = 2 /\ t_start_idx > 0 THEN DropFirst(cut, 1) ELSE cut

\* apply denoising_end: keep the leading count of timesteps >= t_end_val,
\* and one more for a second-order scheduler when something is kept
ApplyDenoisingEnd(order, timesteps, t_end_val) ==
    LET t_end_idx == CountGe(timesteps, t_end_val)
    IN  TakeFirst(timesteps,
                  IF order = 2 /\ t_end_idx > 0 THEN t_end_idx + 1 ELSE t_end_idx)

StepCount_Floor(order, n) ==
    IF order = 2 THEN n \div 2 ELSE n

\* calculate step count based on scheduler order
StepCount(order, n) ==
    IF order = 2 THEN (n + (n % 2)) \div 2 ELSE n

\* init_scheduler(scheduler, device, steps, denoising_start, denoising_end).
\* sch.timesteps is scheduler.timesteps after set_timesteps(steps); the
\* device (and so cpu_only) does not enter the result.
InitScheduler(sch, steps, denoising_start, denoising_end) ==
    LET started == ApplyDenoisingStart(sch.order, sch.timesteps,
                       TVal(sch.num_train_timesteps, denoising_start))
        init_timestep == TakeFirst(started, 1)
        ended == ApplyDenoisingEnd(sch.order, started,
                       TVal(sch.num_train_timesteps, denoising_end))
    IN  [num_inference_steps |-> StepCount(sch.order, Len(ended)),
         timesteps |-> ended,
         init_timestep |-> init_timestep]

\* Every scheduler object init_scheduler may be handed: an order, a training
\* horizon and the timestep list set_timesteps produced
Schedulers ==
    UNION {[order : 1..MaxOrder,
            num_train_timesteps : {n},
            timesteps : SeqsOf(-1..n, 1, MaxLen)] : n \in 1..MaxTrain}

NoCall ==
    [called |-> FALSE, steps |-> 1, denoising_start |-> 0, denoising_end |-> 0,
     num_inference_steps |-> 0, timesteps |-> <<>>, init_timestep |-> <<>>]

isIdle ==
    /\ scheduler = [order |-> 1, num_train_timesteps |-> 1, timesteps |-> <<0>>]
    /\ is_call = NoCall

isInit ==
    /\ scheduler \in Schedulers
    /\ is_call = NoCall

\* one call of init_scheduler on the scheduler
InitSchedulerCall ==
    /\ ~is_call.called
    /\ \E steps \in 1..MaxSteps, ds \in 0..Denom, de \in 0..Denom :
        LET r == InitScheduler(scheduler, steps, ds, de)
        IN  /\ is_call' = [called |-> TRUE, steps |-> steps,
                           denoising_start |-> ds, denoising_end |-> de,
                           num_inference_steps |-> r.num_inference_steps,
                           timesteps |-> r.timesteps,
                           init_timestep |-> r.init_timestep]
            /\ UNCHANGED <<scheduler, notIs>>

(***************************************************************************)
(* DenoiseLatentsInvocation.ge_one, the validator of cfg_scale             *)
(***************************************************************************)
\* A cfg_scale value is a float or a list of floats (Union[float,
\* List[float]]); only its order against 1 is read, so floats are integers
\* here. is_list says which of the two fields holds the value.
Scalar(v) == [is_list |-> FALSE, scalar |-> v, list |-> <<>>]
List(l) == [is_list |-> TRUE, scalar |-> 0, list |-> l]

CfgValues ==
    {Scalar(v) : v \in 0..MaxCfg}
        \cup {List(l) : l \in SeqsOf(0..MaxCfg, 0, MaxCfgLen)}

GeOneListRaises_FirstOnly(list, i) ==
    i <= Len(list) /\ list[i] < 1

\* for i in v: if i < 1: raise ValueError  -- from position i on
RECURSIVE GeOneListRaises(_, _)
GeOneListRaises(list, i) ==
    IF i > Len(list) THEN FALSE
    ELSE IF list[i] < 1 THEN TRUE
    ELSE GeOneListRaises(list, i + 1)

\* ge_one(cls, v): raises ValueError or returns v
GeOne(v) ==
    IF v.is_list
    THEN IF GeOneListRaises(v.list, 1)
         THEN [status |-> "ValueError", value |-> Scalar(0)]
         ELSE [status |-> "returned", value |-> v]
    ELSE IF v.scalar < 1
         THEN [status |-> "ValueError", value |-> Scalar(0)]
         ELSE [status |-> "returned", value |-> v]

NotValidated == [status |-> "pending", value |-> Scalar(0)]

cfgIdle ==
    /\ cfg_scale = Scalar(1)
    /\ ge_one_result = NotValidated

cfgInit ==
    /\ cfg_scale \in CfgValues
    /\ ge_one_result = NotValidated

\* pydantic runs the validator on the given cfg_scale
GeOneValidate ==
    /\ ge_one_result.status = "pending"
    /\ ge_one_result' = GeOne(cfg_scale)
    /\ UNCHANGED <<cfg_scale, notCfg>>

(***************************************************************************)
(* get_scheduler                                                           *)
(***************************************************************************)
\* A Python dict is a function on its keys.
EmptyDict == [k \in {} |-> FALSE]

\* {**a, **b}
Merge(a, b) ==
    [k \in (DOMAIN a) \cup (DOMAIN b) |-> IF k \in DOMAIN b THEN b[k] ELSE a[k]]

\* SCHEDULER_MAP is imported from backend.stable_diffusion.schedulers: a dict
\* from scheduler name to (scheduler class, extra config). Four entries of
\* its shape stand for it; get_scheduler reads it only through "ddim" and the
\* name it is given.
SCHEDULER_MAP ==
    [ddim |-> [class |-> "DDIMScheduler", extra |-> EmptyDict],
     euler |-> [class |-> "EulerDiscreteScheduler",
                extra |-> [use_karras_sigmas |-> FALSE]],
     euler_k |-> [class |-> "EulerDiscreteScheduler",
                  extra |-> [use_karras_sigmas |-> TRUE]],
     heun |-> [class |-> "HeunDiscreteScheduler",
               extra |-> [use_karras_sigmas |-> FALSE]]]

\* the names get_scheduler may be given: the keys and a name that is no key
SchedulerNames == (DOMAIN SCHEDULER_MAP) \cup {"no_such_scheduler"}

GetSchedulerEntry_DefaultEuler(scheduler_name) ==
    IF scheduler_name \in DOMAIN SCHEDULER_MAP
    THEN SCHEDULER_MAP[scheduler_name]
    ELSE SCHEDULER_MAP["euler"]

\* SCHEDULER_MAP.get(scheduler_name, SCHEDULER_MAP["ddim"])
GetSchedulerEntry(scheduler_name) ==
    IF scheduler_name \in DOMAIN SCHEDULER_MAP
    THEN SCHEDULER_MAP[scheduler_name]
    ELSE SCHEDULER_MAP["ddim"]

SchedulerConfig_Accumulate(loaded, scheduler_extra_config) ==
    Merge(Merge(loaded, scheduler_extra_config),
          [k \in {"_backup"} |-> loaded])

\* the config handed to scheduler_class.from_config
SchedulerConfig(loaded, scheduler_extra_config) ==
    LET scheduler_config ==
            IF "_backup" \in DOMAIN loaded THEN loaded["_backup"] ELSE loaded
    IN  Merge(Merge(scheduler_config, scheduler_extra_config),
              [k \in {"_backup"} |-> scheduler_config])

\* get_scheduler(context, scheduler_info, scheduler_name): the scheduler
\* built, as its class, the extra config used and its config
GetScheduler(loaded, scheduler_name) ==
    LET entry == GetSchedulerEntry(scheduler_name)
    IN  [called |-> TRUE,
         scheduler_name |-> scheduler_name,
         scheduler_class |-> entry.class,
         scheduler_extra_config |-> entry.extra,
         config |-> SchedulerConfig(loaded, entry.extra),
         uses_inpainting_model |-> FALSE]

\* the configs a stored scheduler may carry before any selection
OrigConfigs ==
    {[k \in {"num_train_timesteps"} |-> n] : n \in 1..MaxTrain}
        \cup {Merge([k \in {"num_train_timesteps"} |-> n],
                    [k \in {"use_karras_sigmas"} |-> b]) :
                 n \in 1..MaxTrain, b \in BOOLEAN}

NoScheduler ==
    [called |-> FALSE, scheduler_name |-> "ddim", scheduler_class |-> "",
     scheduler_extra_config |-> EmptyDict, config |-> EmptyDict,
     uses_inpainting_model |-> FALSE]

gsIdle ==
    /\ orig_scheduler = [k \in {"num_train_timesteps"} |-> 1]
    /\ original_config = orig_scheduler
    /\ gs_result = NoScheduler

gsInit ==
    /\ orig_scheduler \in OrigConfigs
    /\ original_config = orig_scheduler
    /\ gs_result = NoScheduler

\* one call of get_scheduler
GetSchedulerCall ==
    \E scheduler_name \in SchedulerNames :
        /\ gs_result' = GetScheduler(orig_scheduler, scheduler_name)
        /\ UNCHANGED <<orig_scheduler, original_config, notGs>>

\* The scheduler get_scheduler built is the one handed out from now on: its
\* config carries the "_backup" entry.
AdoptScheduler ==
    /\ gs_result.called
    /\ orig_scheduler' = gs_result.config
    /\ UNCHANGED <<gs_result, original_config, notGs>>

(***************************************************************************)
(* ResizeLatentsInvocation, ScaleLatentsInvocation, build_latents_output   *)
(***************************************************************************)
LATENTS_INTERPOLATION_MODE ==
    {"nearest", "linear", "bilinear", "bicubic", "trilinear", "area",
     "nearest-exact"}

\* build_latents_output: the pixel size reported for a latents tensor
BuildLatentsOutput(latents_height, latents_width) ==
    [width |-> latents_width * LatentScale,
     height |-> latents_height * LatentScale]

ResizeLatentsInvoke_RoundUp(self) ==
    LET size_h == (self.height + ResizeDivisor - 1) \div ResizeDivisor
        size_w == (self.width + ResizeDivisor - 1) \div ResizeDivisor
        out == BuildLatentsOutput(size_h, size_w)
    IN  [called |-> TRUE, size_h |-> size_h, size_w |-> size_w,
         scale_factor |-> 0, mode |-> self.mode,
         antialias |-> IF self.mode \in {"bilinear", "bicubic"}
                       THEN self.antialias ELSE FALSE,
         width |-> out.width, height |-> out.height]

\* ResizeLatentsInvocation.invoke: interpolate(size=(height // 8, width // 8),
\* mode, antialias); the resized latents have that size
ResizeLatentsInvoke(self) ==
    LET size_h == self.height \div ResizeDivisor
        size_w == self.width \div ResizeDivisor
        out == BuildLatentsOutput(size_h, size_w)
    IN  [called |-> TRUE, size_h |-> size_h, size_w |-> size_w,
         scale_factor |-> 0, mode |-> self.mode,
         antialias |-> IF self.mode \in {"bilinear", "bicubic"}
                       THEN self.antialias ELSE FALSE,
         width |-> out.width, height |-> out.height]

ScaleLatentsInvoke_AlwaysAntialias(self) ==
    LET size_h == (self.latents_height * self.scale_factor) \div ScaleDenom
        size_w == (self.latents_width * self.scale_factor) \div ScaleDenom
        out == BuildLatentsOutput(size_h, size_w)
    IN  [called |-> TRUE, size_h |-> size_h, size_w |-> size_w,
         scale_factor |-> self.scale_factor, mode |-> self.mode,
         antialias |-> self.antialias,
         width |-> out.width, height |-> out.height]

\* ScaleLatentsInvocation.invoke: interpolate(scale_factor, mode, antialias);
\* the scaled latents are floor(size * scale_factor) high and wide
ScaleLatentsInvoke(self) ==
    LET size_h == (self.latents_height * self.scale_factor) \div ScaleDenom
        size_w == (self.latents_width * self.scale_factor) \div ScaleDenom
        out == BuildLatentsOutput(size_h, size_w)
    IN  [called |-> TRUE, size_h |-> size_h, size_w |-> size_w,
         scale_factor |-> self.scale_factor, mode |-> self.mode,
         antialias |-> IF self.mode \in {"bilinear", "bicubic"}
                       THEN self.antialias ELSE FALSE,
         width |-> out.width, height |-> out.height]

\* The nodes: a width and height reach invoke from the field or from an
\* upstream node's output, so the range holds multiples of 8 and other
\* values, from below the field's minimum up.
ResizeNodes ==
    [type : {"lresize"},
     width : (MinDim - LatentScale)..MaxDim,
     height : (MinDim - LatentScale)..MaxDim,
     scale_factor : {0},
     mode : LATENTS_INTERPOLATION_MODE,
     antialias : BOOLEAN,
     latents_height : 1..MaxLatent,
     latents_width : 1..MaxLatent]

ScaleNodes ==
    [type : {"lscale"},
     width : {0},
     height : {0},
     scale_factor : 1..MaxScale,
     mode : LATENTS_INTERPOLATION_MODE,
     antialias : BOOLEAN,
     latents_height : 1..MaxLatent,
     latents_width : 1..MaxLatent]

NotInvoked ==
    [called |-> FALSE, size_h |-> 0, size_w |-> 0, scale_factor |-> 0,
     mode |-> "bilinear", antialias |-> FALSE, width |-> 0, height |-> 0]

rzIdle ==
    /\ rz_node = [type |-> "lresize", width |-> MinDim, height |-> MinDim,
                  scale_factor |-> 0, mode |-> "bilinear", antialias |-> FALSE,
                  latents_height |-> 1, latents_width |-> 1]
    /\ rz_result = NotInvoked

rzInit ==
    /\ rz_node \in ResizeNodes \cup ScaleNodes
    /\ rz_result = NotInvoked

ResizeInvoke ==
    /\ rz_node.type = "lresize"
    /\ ~rz_result.called
    /\ rz_result' = ResizeLatentsInvoke(rz_node)
    /\ UNCHANGED <<rz_node, notRz>>

ScaleInvoke ==
    /\ rz_node.type = "lscale"
    /\ ~rz_result.called
    /\ rz_result' = ScaleLatentsInvoke(rz_node)
    /\ UNCHANGED <<rz_node, notRz>>

(***************************************************************************)
(* LatentsToImageInvocation and ImageToLatentsInvocation                   *)
(***************************************************************************)
Dtypes == {"float16", "float32"}

\* The VAE: its tiling switch, its dtype, and the dtype of post_quant_conv,
\* decoder.conv_in and decoder.mid_block (moved together)
Vaes == [use_tiling : BOOLEAN, dtype : Dtypes, mid_dtype : Dtypes]

\* vae.to(dtype=...) moves every part
VaeTo(v, dtype) == [v EXCEPT !.dtype = dtype, !.mid_dtype = dtype]

\* the fp32 branch and its else
L2IPrecision(v, fp32, latents_dtype) ==
    IF fp32
    THEN IF use_torch_2_0_or_xformers
         THEN [vae |-> [VaeTo(v, "float32") EXCEPT !.mid_dtype = latents_dtype],
               latents_dtype |-> latents_dtype]
         ELSE [vae |-> VaeTo(v, "float32"), latents_dtype |-> "float32"]
    ELSE [vae |-> VaeTo(v, "float16"), latents_dtype |-> "float16"]

L2ITiling_EnableOnly(v, tiled) ==
    IF tiled \/ tiled_decode THEN [v EXCEPT !.use_tiling = TRUE] ELSE v

\* if self.tiled or configuration.tiled_decode: enable_tiling()
\* else: disable_tiling()
L2ITiling(v, tiled) ==
    IF tiled \/ tiled_decode
    THEN [v EXCEPT !.use_tiling = TRUE]
    ELSE [v EXCEPT !.use_tiling = FALSE]

\* LatentsToImageInvocation.invoke on the shared VAE
LatentsToImageInvoke ==
    /\ Len(vae_log) < MaxVaeCalls
    /\ \E tiled \in BOOLEAN, fp32 \in BOOLEAN, latents_dtype \in Dtypes :
        LET p == L2IPrecision(vae, fp32, latents_dtype)
            v == L2ITiling(p.vae, tiled)
        IN  /\ vae' = v
            /\ vae_log' = Append(vae_log,
                    [type |-> "l2i", tiled |-> tiled,
                     tiling |-> v.use_tiling,
                     latents_dtype |-> p.latents_dtype])
    /\ UNCHANGED <<tiled_decode, use_torch_2_0_or_xformers, notVae>>

\* the fp32 branch and its else of the encoder
I2LPrecision(v, fp32) ==
    LET orig_dtype == v.dtype
    IN  IF fp32
        THEN IF use_torch_2_0_or_xformers
             THEN [VaeTo(v, "float32") EXCEPT !.mid_dtype = orig_dtype]
             ELSE VaeTo(v, "float32")
        ELSE VaeTo(v, "float16")

\* if self.tiled: enable_tiling() else: disable_tiling()
I2LTiling(v, tiled) == [v EXCEPT !.use_tiling = tiled]

\* ImageToLatentsInvocation.invoke on the shared VAE; the latents it
\* returns are cast back to the VAE's dtype on entry
ImageToLatentsInvoke ==
    /\ Len(vae_log) < MaxVaeCalls
    /\ \E tiled \in BOOLEAN, fp32 \in BOOLEAN :
        LET v == I2LTiling(I2LPrecision(vae, fp32), tiled)
        IN  /\ vae' = v
            /\ vae_log' = Append(vae_log,
                    [type |-> "i2l", tiled |-> tiled,
                     tiling |-> v.use_tiling,
                     latents_dtype |-> vae.dtype])
    /\ UNCHANGED <<tiled_decode, use_torch_2_0_or_xformers, notVae>>

vaeIdle ==
    /\ vae = [use_tiling |-> FALSE, dtype |-> "float16", mid_dtype |-> "float16"]
    /\ tiled_decode = FALSE
    /\ use_torch_2_0_or_xformers = FALSE
    /\ vae_log = <<>>

\* a freshly loaded VAE does not tile
vaeInit ==
    /\ \E d \in Dtypes :
         vae = [use_tiling |-> FALSE, dtype |-> d, mid_dtype |-> d]
    /\ tiled_decode \in BOOLEAN
    /\ use_torch_2_0_or_xformers \in BOOLEAN
    /\ vae_log = <<>>

(***************************************************************************)
(* DenoiseLatentsInvocation.invoke and prep_control_data                   *)
(***************************************************************************)
\* control is a ControlField, a list, None, or (unchecked) anything else.
\* The ControlFields differ in every field; two name the same model.
ControlFields ==
    {[is_control_field |-> TRUE, control_model |-> "cn_a", control_weight |-> 1,
      begin_step_percent |-> 0, end_step_percent |-> 4,
      control_mode |-> "balanced", resize_mode |-> "just_resize"],
     [is_control_field |-> TRUE, control_model |-> "cn_b", control_weight |-> 2,
      begin_step_percent |-> 1, end_step_percent |-> 3,
      control_mode |-> "more_prompt", resize_mode |-> "crop_resize"],
     [is_control_field |-> TRUE, control_model |-> "cn_a", control_weight |-> 3,
      begin_step_percent |-> 2, end_step_percent |-> 2,
      control_mode |-> "more_control", resize_mode |-> "fill_resize"]}

\* a list element that is no ControlField
NotAControlField ==
    [is_control_field |-> FALSE, control_model |-> "", control_weight |-> 0,
     begin_step_percent |-> 0, end_step_percent |-> 0,
     control_mode |-> "", resize_mode |-> ""]

ControlInputs ==
    {[kind |-> "None", items |-> <<>>], [kind |-> "other", items |-> <<>>]}
        \cup {[kind |-> "ControlField", items |-> <<c>>] : c \in ControlFields}
        \cup {[kind |-> "list", items |-> l] :
                l \in SeqsOf(ControlFields \cup {NotAControlField},
                             0, MaxControls)}

None == [is_none |-> TRUE, items |-> <<>>]
ListOf(items) == [is_none |-> FALSE, items |-> items]

ControlList_ListOnly(control_input) ==
    IF /\ control_input.kind = "list"
       /\ Len(control_input.items) > 0
       /\ control_input.items[1].is_control_field
    THEN ListOf(control_input.items)
    ELSE None

\* the first part of prep_control_data: control_list
ControlList(control_input) ==
    IF control_input.kind = "None" THEN None
    ELSE IF control_input.kind = "list" /\ Len(control_input.items) = 0
    THEN None
    ELSE IF control_input.kind = "ControlField"
    THEN ListOf(<<control_input.items[1]>>)
    ELSE IF /\ control_input.kind = "list"
            /\ Len(control_input.items) > 0
            /\ control_input.items[1].is_control_field
    THEN ListOf(control_input.items)
    ELSE None

\* the ControlNetData built for one entry (its image tensor left out)
ControlNetData(control_info) ==
    [model |-> control_info.control_model,
     weight |-> control_info.control_weight,
     begin_step_percent |-> control_info.begin_step_percent,
     end_step_percent |-> control_info.end_step_percent,
     control_mode |-> control_info.control_mode,
     resize_mode |-> control_info.resize_mode]

EnterContext_Unregistered(stack, cm) == stack

\* exit_stack.enter_context(cm), once cm is entered
EnterContext(stack, cm) == Append(stack, cm)

\* seq without its last entry equal to x
RECURSIVE RemoveLast(_, _)
RemoveLast(seq, x) ==
    IF seq = <<>> THEN <<>>
    ELSE IF seq[Len(seq)] = x THEN SubSeq(seq, 1, Len(seq) - 1)
    ELSE Append(RemoveLast(SubSeq(seq, 1, Len(seq) - 1), x), seq[Len(seq)])

\* the order of a scheduler class (an attribute of the diffusers class)
SchedulerOrder(class) == IF class = "HeunDiscreteScheduler" THEN 2 ELSE 1

\* The timestep lists set_timesteps(steps) may leave on the scheduler built by
\* get_scheduler: non-increasing, within 0..num_train_timesteps-1, `steps`
\* long, or 2*steps-1 for a second-order scheduler.
SetTimesteps(order, num_train_timesteps, steps) ==
    {l \in [1..(IF order = 2 THEN 2 * steps - 1 ELSE steps)
              -> 0..(num_train_timesteps - 1)] :
        \A i \in 1..(Len(l) - 1) : l[i] >= l[i + 1]}

Nodes ==
    [control : ControlInputs,
     scheduler : DOMAIN SCHEDULER_MAP,
     loras : 0..MaxLoras]

invIdle ==
    /\ pc = "idle"
    /\ node = [control |-> [kind |-> "None", items |-> <<>>],
               scheduler |-> "euler", loras |-> 0]
    /\ error = "none"
    /\ held = <<>>
    /\ lora_patched = FALSE
    /\ exit_stack = <<>>
    /\ acquired = <<>>
    /\ released = <<>>
    /\ control_data = None

invInit ==
    /\ invIdle
    /\ orig_scheduler = [k \in {"num_train_timesteps"} |-> MaxTrain]
    /\ original_config = orig_scheduler
    /\ gs_result = NoScheduler
    /\ isIdle

\* the locals of the with-block, dropped when the block is left
BodyLocalsDropped ==
    /\ gs_result' = NoScheduler
    /\ scheduler' = [order |-> 1, num_train_timesteps |-> 1, timesteps |-> <<0>>]
    /\ is_call' = NoCall
    /\ control_data' = None

\* an exception leaves the with-block: the contexts unwind from the UNet
RaiseInBody(stage) ==
    /\ error' = stage
    /\ pc' = "exit_unet"
    /\ BodyLocalsDropped

\* the graph hands invoke a node
Begin ==
    /\ pc = "idle"
    /\ node' \in Nodes
    /\ pc' = "prepare"
    /\ UNCHANGED <<error, held, lora_patched, exit_stack, acquired, released,
                   control_data, gsVars, isVars, notInv>>

\* noise, latents, mask and the source node id are fetched; nothing is held
Prepare ==
    /\ pc = "prepare"
    /\ \/ pc' = "get_unet" /\ UNCHANGED error
       \/ pc' = "raised" /\ error' = "prepare"
    /\ UNCHANGED <<node, held, lora_patched, exit_stack, acquired, released,
                   control_data, gsVars, isVars, notInv>>

\* unet_info = model_manager.get_model(...): the model is not entered yet
GetUnetInfo ==
    /\ pc = "get_unet"
    /\ \/ pc' = "enter_lora" /\ UNCHANGED error
       \/ pc' = "raised" /\ error' = "unet_info"
    /\ UNCHANGED <<node, held, lora_patched, exit_stack, acquired, released,
                   control_data, gsVars, isVars, notInv>>

\* with ExitStack() as exit_stack, ModelPatcher.apply_lora_unet(...): the
\* stack is entered, then the patch is applied; a LoRA that fails to load
\* leaves the patch unapplied and the (empty) stack to exit
EnterLora ==
    /\ pc = "enter_lora"
    /\ \/ /\ lora_patched' = TRUE
          /\ acquired' = Append(acquired, "lora")
          /\ pc' = "enter_unet"
          /\ UNCHANGED error
       \/ /\ node.loras > 0
          /\ error' = "lora"
          /\ pc' = "exit_stack"
          /\ UNCHANGED <<lora_patched, acquired>>
    /\ UNCHANGED <<node, held, exit_stack, released, control_data, gsVars,
                   isVars, notInv>>

\* ..., unet_info as unet: the UNet context is entered last
EnterUnet ==
    /\ pc = "enter_unet"
    /\ \/ /\ held' = Append(held, "unet")
          /\ acquired' = Append(acquired, "unet")
          /\ pc' = "get_scheduler"
          /\ UNCHANGED error
       \/ /\ error' = "unet"
          /\ pc' = "exit_lora"
          /\ UNCHANGED <<held, acquired>>
    /\ UNCHANGED <<node, lora_patched, exit_stack, released, control_data,
                   gsVars, isVars, notInv>>

\* scheduler = get_scheduler(...); the stored scheduler is entered and exited
\* inside get_scheduler
InvokeGetScheduler ==
    /\ pc = "get_scheduler"
    /\ \/ /\ gs_result' = GetScheduler(orig_scheduler, node.scheduler)
          /\ pc' = "conditioning"
          /\ UNCHANGED <<error, isVars, control_data>>
       \/ RaiseInBody("scheduler")
    /\ UNCHANGED <<node, held, lora_patched, exit_stack, acquired, released,
                   orig_scheduler, original_config, notInv>>

\* create_pipeline and get_conditioning_data
Conditioning ==
    /\ pc = "conditioning"
    /\ \/ /\ pc' = "prep_control"
          /\ UNCHANGED <<error, gs_result, isVars, control_data>>
       \/ RaiseInBody("conditioning")
    /\ UNCHANGED <<node, held, lora_patched, exit_stack, acquired, released,
                   orig_scheduler, original_config, notInv>>

\* prep_control_data up to its loop: control_list; None is returned at once
PrepControlStart ==
    /\ pc = "prep_control"
    /\ IF ControlList(node.control).is_none
       THEN control_data' = None /\ pc' = "init_scheduler"
       ELSE control_data' = ListOf(<<>>) /\ pc' = "control_loop"
    /\ UNCHANGED <<node, error, held, lora_patched, exit_stack, acquired,
                   released, gsVars, isVars, notInv>>

\* one turn of the loop of prep_control_data on the next control_info
PrepControlTurn ==
    /\ pc = "control_loop"
    /\ Len(control_data.items) < Len(ControlList(node.control).items)
    /\ LET control_info ==
               ControlList(node.control).items[Len(control_data.items) + 1]
       IN  \/ \* control_info.control_model of a value that has none
              /\ ~control_info.is_control_field
              /\ RaiseInBody("control_info")
              /\ UNCHANGED <<held, acquired, exit_stack>>
           \/ \* get_model or the model's __enter__ raises
              /\ control_info.is_control_field
              /\ RaiseInBody("control_model")
              /\ UNCHANGED <<held, acquired, exit_stack>>
           \/ \* the model is entered; the image or its preparation raises
              /\ control_info.is_control_field
              /\ held' = Append(held, control_info.control_model)
              /\ acquired' = Append(acquired, control_info.control_model)
              /\ exit_stack' = EnterContext(exit_stack, control_info.control_model)
              /\ RaiseInBody("control_image")
           \/ /\ control_info.is_control_field
              /\ held' = Append(held, control_info.control_model)
              /\ acquired' = Append(acquired, control_info.control_model)
              /\ exit_stack' = EnterContext(exit_stack, control_info.control_model)
              /\ control_data' =
                     ListOf(Append(control_data.items, ControlNetData(control_info)))
              /\ UNCHANGED <<pc, error, gs_result, isVars>>
    /\ UNCHANGED <<node, lora_patched, released, orig_scheduler,
                   original_config, notInv>>

\* the loop is over: prep_control_data returns control_data
PrepControlReturn ==
    /\ pc = "control_loop"
    /\ Len(control_data.items) = Len(ControlList(node.control).items)
    /\ pc' = "init_scheduler"
    /\ UNCHANGED <<node, error, held, lora_patched, exit_stack, acquired,
                   released, control_data, gsVars, isVars, notInv>>

\* self.init_scheduler(scheduler, ...) on the scheduler get_scheduler built;
\* steps, denoising_start and denoising_end are read from the node here
InvokeInitScheduler ==
    /\ pc = "init_scheduler"
    /\ \E steps \in 1..MaxSteps, ds \in 0..Denom, de \in 0..Denom :
         LET order == SchedulerOrder(gs_result.scheduler_class)
             n == gs_result.config["num_train_timesteps"]
         IN  \E ts \in SetTimesteps(order, n, steps) :
               LET sch == [order |-> order, num_train_timesteps |-> n,
                           timesteps |-> ts]
                   r == InitScheduler(sch, steps, ds, de)
               IN  /\ scheduler' = sch
                   /\ is_call' = [called |-> TRUE, steps |-> steps,
                                  denoising_start |-> ds,
                                  denoising_end |-> de,
                                  num_inference_steps |-> r.num_inference_steps,
                                  timesteps |-> r.timesteps,
                                  init_timestep |-> r.init_timestep]
    /\ pc' = "sample"
    /\ UNCHANGED <<node, error, held, lora_patched, exit_stack, acquired,
                   released, control_data, gsVars, notInv>>

\* pipeline.latents_from_embeddings(...): the block ends, or it raises
Sample ==
    /\ pc = "sample"
    /\ \/ /\ pc' = "exit_unet"
          /\ BodyLocalsDropped
          /\ UNCHANGED error
       \/ RaiseInBody("sampling")
    /\ UNCHANGED <<node, held, lora_patched, exit_stack, acquired, released,
                   orig_scheduler, original_config, notInv>>

\* the with statement unwinds: unet_info.__exit__ first
ExitUnet ==
    /\ pc = "exit_unet"
    /\ held' = RemoveLast(held, "unet")
    /\ released' = Append(released, "unet")
    /\ pc' = "exit_lora"
    /\ UNCHANGED <<node, error, lora_patched, exit_stack, acquired,
                   control_data, gsVars, isVars, notInv>>

\* then the LoRA patch is taken off
ExitLora ==
    /\ pc = "exit_lora"
    /\ lora_patched' = FALSE
    /\ released' = Append(released, "lora")
    /\ pc' = "exit_stack"
    /\ UNCHANGED <<node, error, held, exit_stack, acquired, control_data,
                   gsVars, isVars, notInv>>

\* then exit_stack.__exit__: it exits what it holds, the last entered first
ExitStackPop ==
    /\ pc = "exit_stack"
    /\ exit_stack # <<>>
    /\ LET cm == exit_stack[Len(exit_stack)]
       IN  /\ held' = RemoveLast(held, cm)
           /\ released' = Append(released, cm)
    /\ exit_stack' = SubSeq(exit_stack, 1, Len(exit_stack) - 1)
    /\ UNCHANGED <<pc, node, error, lora_patched, acquired, control_data,
                   gsVars, isVars, notInv>>

\* the stack is empty: the exception, if any, leaves invoke
ExitStackDone ==
    /\ pc = "exit_stack"
    /\ exit_stack = <<>>
    /\ pc' = IF error = "none" THEN "save" ELSE "raised"
    /\ UNCHANGED <<node, error, held, lora_patched, exit_stack, acquired,
                   released, control_data, gsVars, isVars, notInv>>

\* result_latents.to("cpu"), latents.save, build_latents_output
Save ==
    /\ pc = "save"
    /\ \/ pc' = "returned" /\ UNCHANGED error
       \/ pc' = "raised" /\ error' = "save"
    /\ UNCHANGED <<node, held, lora_patched, exit_stack, acquired, released,
                   control_data, gsVars, isVars, notInv>>

(***************************************************************************)
(* Specifications: one per part of the file; the parts share no state.     *)
(***************************************************************************)
InitSchedInit == isInit /\ cfgIdle /\ gsIdle /\ rzIdle /\ vaeIdle /\ invIdle
InitSchedNext == InitSchedulerCall
SpecInitSched == InitSchedInit /\ [][InitSchedNext]_vars

GeOneInit == cfgInit /\ isIdle /\ gsIdle /\ rzIdle /\ vaeIdle /\ invIdle
GeOneNext == GeOneValidate
SpecGeOne == GeOneInit /\ [][GeOneNext]_vars

GetSchedInit == gsInit /\ isIdle /\ cfgIdle /\ rzIdle /\ vaeIdle /\ invIdle
GetSchedNext == GetSchedulerCall \/ AdoptScheduler
SpecGetSched == GetSchedInit /\ [][GetSchedNext]_vars

ResizeInit == rzInit /\ isIdle /\ cfgIdle /\ gsIdle /\ vaeIdle /\ invIdle
ResizeNext == ResizeInvoke \/ ScaleInvoke
SpecResize == ResizeInit /\ [][ResizeNext]_vars

VaeInit == vaeInit /\ isIdle /\ cfgIdle /\ gsIdle /\ rzIdle /\ invIdle
VaeNext == LatentsToImageInvoke \/ ImageToLatentsInvoke
SpecVae == VaeInit /\ [][VaeNext]_vars

\* DenoiseLatentsInvocation.invoke, step by step
Init == invInit /\ cfgIdle /\ rzIdle /\ vaeIdle
Next ==
    \/ Begin
    \/ Prepare
    \/ GetUnetInfo
    \/ EnterLora
    \/ EnterUnet
    \/ InvokeGetScheduler
    \/ Conditioning
    \/ PrepControlStart
    \/ PrepControlTurn
    \/ PrepControlReturn
    \/ InvokeInitScheduler
    \/ Sample
    \/ ExitUnet
    \/ ExitLora
    \/ ExitStackPop
    \/ ExitStackDone
    \/ Save
Spec == Init /\ [][Next]_vars

(***************************************************************************)
(* Properties of init_scheduler                                            *)
(***************************************************************************)
NonIncreasing(seq) ==
    \A i \in 1..(Len(seq) - 1) : seq[i] >= seq[i + 1]

AllIn(seq, lo, hi) ==
    \A i \in 1..Len(seq) : lo <= seq[i] /\ seq[i] <= hi

\* the timesteps t of seq with lo <= t < hi, in their order
Window(seq, lo, hi) ==
    LET In(t) == lo <= t /\ t < hi
    IN  SelectSeq(seq, In)

\* C3: with denoising_start = 0 and denoising_end = 1, for a scheduler of
\* order 1 or 2 whose timesteps are all in 0..num_train_timesteps-1, the
\* returned timesteps are the scheduler's full list, and when that list has
\* `steps` entries (order 1) or 2*steps-1 entries (order 2) the returned
\* num_inference_steps is `steps`.
C3_FullWindowKeepsAll ==
    ( /\ is_call.called
      /\ is_call.denoising_start = 0
      /\ is_call.denoising_end = Denom
      /\ scheduler.order \in {1, 2}
      /\ AllIn(scheduler.timesteps, 0, scheduler.num_train_timesteps - 1) )
    => /\ is_call.timesteps = scheduler.timesteps
       /\ ( \/ scheduler.order = 1 /\ Len(scheduler.timesteps) = is_call.steps
            \/ scheduler.order = 2
                 /\ Len(scheduler.timesteps) = 2 * is_call.steps - 1 )
          => is_call.num_inference_steps = is_call.steps

C3_Witness ==
    /\ is_call.called
    /\ is_call.denoising_start = 0
    /\ is_call.denoising_end = Denom
    /\ scheduler.order = 2
    /\ is_call.steps = 2
    /\ scheduler.num_train_timesteps = 3
    /\ scheduler.timesteps = <<2, 1, 1>>
    /\ is_call.timesteps = <<2, 1, 1>>
    /\ is_call.num_inference_steps = 2

\* C8: for a scheduler of order 1 whose timesteps do not increase, the
\* returned timesteps are exactly those t with t_end_val <= t < t_start_val,
\* in their original order, and num_inference_steps is their number.
C8_Order1Window ==
    ( /\ is_call.called
      /\ scheduler.order = 1
      /\ NonIncreasing(scheduler.timesteps) )
    => /\ is_call.timesteps =
            Window(scheduler.timesteps,
                   TVal(scheduler.num_train_timesteps, is_call.denoising_end),
                   TVal(scheduler.num_train_timesteps, is_call.denoising_start))
       /\ is_call.num_inference_steps = Len(is_call.timesteps)

C8_Witness ==
    /\ is_call.called
    /\ scheduler.order = 1
    /\ scheduler.num_train_timesteps = 3
    /\ scheduler.timesteps = <<2, 1, 0>>
    /\ is_call.denoising_start = 1
    /\ is_call.denoising_end = 3
    /\ is_call.timesteps = <<1>>
    /\ is_call.num_inference_steps = 1

C10_StepCount ==
    is_call.called
    => /\ scheduler.order = 2
          => \/ 2 * is_call.num_inference_steps = Len(is_call.timesteps)
             \/ 2 * is_call.num_inference_steps = Len(is_call.timesteps) + 1
       /\ scheduler.order # 2
          => is_call.num_inference_steps = Len(is_call.timesteps)
       /\ is_call.num_inference_steps = 0 <=> is_call.timesteps = <<>>

C10_Witness ==
    /\ is_call.called
    /\ scheduler.order = 2
    /\ Len(is_call.timesteps) = 3
    /\ is_call.num_inference_steps = 2

(***************************************************************************)
(* Properties of the cfg_scale validator                                   *)
(***************************************************************************)
\* C2: a scalar is returned unchanged iff it is >= 1, a list is returned
\* unchanged iff every element is >= 1, and in every other case ValueError
\* is raised.
C2_GeOne ==
    ge_one_result.status # "pending"
    => /\ ge_one_result.status \in {"returned", "ValueError"}
       /\ ge_one_result.status = "returned"
          <=> IF cfg_scale.is_list
              THEN \A i \in 1..Len(cfg_scale.list) : cfg_scale.list[i] >= 1
              ELSE cfg_scale.scalar >= 1
       /\ ge_one_result.status = "returned"
          => ge_one_result.value = cfg_scale

\* a list with one element below 1 after two good ones is rejected
C2_Witness ==
    /\ cfg_scale = List(<<2, 3, 0>>)
    /\ ge_one_result.status = "ValueError"

(***************************************************************************)
(* Properties of get_scheduler                                             *)
(***************************************************************************)
\* C1: for a name that is a key of SCHEDULER_MAP the class and the extra
\* config used are that key's entry, and for any other name they are the
\* entry of "ddim"; the extra config is what the built config carries.
C1_SchedulerEntry ==
    gs_result.called
    => LET key == IF gs_result.scheduler_name \in DOMAIN SCHEDULER_MAP
                  THEN gs_result.scheduler_name ELSE "ddim"
       IN  /\ gs_result.scheduler_class = SCHEDULER_MAP[key].class
           /\ gs_result.scheduler_extra_config = SCHEDULER_MAP[key].extra
           /\ \A k \in DOMAIN SCHEDULER_MAP[key].extra :
                 /\ k \in DOMAIN gs_result.config
                 /\ gs_result.config[k] = SCHEDULER_MAP[key].extra[k]

\* a name that is no key gets the DDIM entry
C1_Witness ==
    /\ gs_result.called
    /\ gs_result.scheduler_name = "no_such_scheduler"
    /\ gs_result.scheduler_class = "DDIMScheduler"
    /\ gs_result.scheduler_extra_config = EmptyDict

\* C11: whatever selections came before, and whether or not the loaded config
\* carries a "_backup" entry, the config get_scheduler builds has the keys of
\* the original config and of the last selection's extra config, each with
\* the extra config's value where it has one and the original's otherwise,
\* and a "_backup" entry that is the original config, which has no "_backup"
\* of its own.
C11_NoAccumulation ==
    gs_result.called
    => LET config == gs_result.config
           extra == gs_result.scheduler_extra_config
       IN  /\ DOMAIN config
                 = (DOMAIN original_config) \cup (DOMAIN extra) \cup {"_backup"}
           /\ \A k \in (DOMAIN config) \ {"_backup"} :
                 config[k] = IF k \in DOMAIN extra
                             THEN extra[k] ELSE original_config[k]
           /\ config["_backup"] = original_config
           /\ "_backup" \notin DOMAIN config["_backup"]

\* "ddim" was selected on a loaded config that an earlier selection of
\* "euler_k" built: the loaded config carries "_backup" and a key the
\* original has not, and the new config has dropped that key
C11_Witness ==
    /\ gs_result.called
    /\ gs_result.scheduler_name = "ddim"
    /\ "_backup" \in DOMAIN orig_scheduler
    /\ "use_karras_sigmas" \in DOMAIN orig_scheduler
    /\ orig_scheduler["use_karras_sigmas"] = TRUE
    /\ "use_karras_sigmas" \notin DOMAIN original_config
    /\ "use_karras_sigmas" \notin DOMAIN gs_result.config

(***************************************************************************)
(* Properties of the resize and scale nodes                                *)
(***************************************************************************)
\* C5: the resize interpolates to (height // 8, width // 8), and for a width
\* and height that are multiples of 8 and >= 64 the output reports the
\* requested width and height.
C5_ResizeFloorDiv ==
    (rz_result.called /\ rz_node.type = "lresize")
    => /\ ResizeDivisor * rz_result.size_h <= rz_node.height
       /\ rz_node.height < ResizeDivisor * (rz_result.size_h + 1)
       /\ ResizeDivisor * rz_result.size_w <= rz_node.width
       /\ rz_node.width < ResizeDivisor * (rz_result.size_w + 1)
       /\ ( /\ rz_node.width % 8 = 0 /\ rz_node.width >= MinDim
            /\ rz_node.height % 8 = 0 /\ rz_node.height >= MinDim )
          => /\ rz_result.width = rz_node.width
             /\ rz_result.height = rz_node.height

C5_Witness ==
    /\ rz_result.called
    /\ rz_node.type = "lresize"
    /\ rz_node.width = 72
    /\ rz_node.height = 64
    /\ rz_result.size_h = 8
    /\ rz_result.size_w = 9
    /\ rz_result.width = 72
    /\ rz_result.height = 64

\* C6: in both nodes the antialias passed to the interpolation is the
\* antialias field in the bilinear and bicubic modes and False in every
\* other mode.
C6_AntialiasModes ==
    rz_result.called
    => /\ rz_node.mode \in {"bilinear", "bicubic"}
          => rz_result.antialias = rz_node.antialias
       /\ rz_node.mode \notin {"bilinear", "bicubic"}
          => rz_result.antialias = FALSE
       /\ rz_result.mode = rz_node.mode

\* a scale in nearest mode with the antialias field set passes False
C6_Witness ==
    /\ rz_result.called
    /\ rz_node.type = "lscale"
    /\ rz_node.mode = "nearest"
    /\ rz_node.antialias
    /\ ~rz_result.antialias

(***************************************************************************)
(* Properties of the decoder                                               *)
(***************************************************************************)
\* C7: every decode sets the tiling state before decoding: the tiling it
\* decodes with is on iff the node's tiled flag or the configuration's
\* tiled_decode is true, whatever invocations ran on the shared VAE before.
C7_DecodeTiling ==
    \A i \in 1..Len(vae_log) :
        vae_log[i].type = "l2i"
        => (vae_log[i].tiling <=> (vae_log[i].tiled \/ tiled_decode))

\* a decode without tiling right after an invocation that left tiling on
C7_Witness ==
    /\ ~tiled_decode
    /\ Len(vae_log) >= 2
    /\ vae_log[1].tiling
    /\ vae_log[2].type = "l2i"
    /\ ~vae_log[2].tiled
    /\ ~vae_log[2].tiling
    /\ ~vae.use_tiling

(***************************************************************************)
(* Properties of DenoiseLatentsInvocation.invoke                           *)
(***************************************************************************)
Reverse(seq) == [i \in 1..Len(seq) |-> seq[Len(seq) + 1 - i]]

Has(seq, x) == \E i \in 1..Len(seq) : seq[i] = x

\* the order in which invoke is to release what it acquired: the UNet, the
\* LoRA patch, then the ControlNet models, the last entered first
ReleaseOrder(acq) ==
    LET IsControlNet(x) == x \notin {"unet", "lora"}
    IN  (IF Has(acq, "unet") THEN <<"unet">> ELSE <<>>)
            \o (IF Has(acq, "lora") THEN <<"lora">> ELSE <<>>)
            \o Reverse(SelectSeq(acq, IsControlNet))

\* C4: once invoke has returned or raised, nothing it acquired is held, and
\* it released the UNet first, then the LoRA patch, then the ControlNet
\* models entered through the exit stack.
C4_ReleasesAll ==
    pc \in {"returned", "raised"}
    => /\ held = <<>>
       /\ ~lora_patched
       /\ exit_stack = <<>>
       /\ released = ReleaseOrder(acquired)

\* the second ControlNet fails to load: the first one, the patch and the
\* UNet are released in order
C4_Witness ==
    /\ pc = "raised"
    /\ error = "control_model"
    /\ acquired = <<"lora", "unet", "cn_b">>
    /\ released = <<"unet", "lora", "cn_b">>
    /\ held = <<>>

\* the ControlNet models among what invoke acquired, in order
ControlNetsOf(acq) ==
    LET IsControlNet(x) == x \notin {"unet", "lora"}
    IN  SelectSeq(acq, IsControlNet)

\* control_data is a list of one ControlNetData per entry of items, in the
\* same order, each with the fields of its entry
CarriesEntries(data, items) ==
    /\ ~data.is_none
    /\ Len(data.items) = Len(items)
    /\ \A i \in 1..Len(items) :
          /\ data.items[i].model = items[i].control_model
          /\ data.items[i].weight = items[i].control_weight
          /\ data.items[i].begin_step_percent = items[i].begin_step_percent
          /\ data.items[i].end_step_percent = items[i].end_step_percent
          /\ data.items[i].control_mode = items[i].control_mode
          /\ data.items[i].resize_mode = items[i].resize_mode

\* C12: when prep_control_data has returned, a control input that is None,
\* an empty list, or neither a ControlField nor a list starting with one gave
\* None and no ControlNet model was acquired; a single ControlField gave a
\* list of one ControlNetData; a non-empty list of ControlFields gave one
\* ControlNetData per entry in order, each with its entry's weight, begin
\* and end step percent, control mode and resize mode; and in both of these
\* cases one ControlNet model per entry, the entry's own, was acquired in
\* order and is on the exit stack.
C12_ControlData ==
    pc = "init_scheduler"
    => LET control_input == node.control
           items == control_input.items
           AllControlFields == \A i \in 1..Len(items) : items[i].is_control_field
           models == [i \in 1..Len(items) |-> items[i].control_model]
       IN  /\ (\/ control_input.kind \in {"None", "other"}
               \/ /\ control_input.kind = "list"
                  /\ \/ Len(items) = 0
                     \/ ~items[1].is_control_field)
               => /\ control_data.is_none
                  /\ ControlNetsOf(acquired) = <<>>
                  /\ exit_stack = <<>>
           /\ control_input.kind = "ControlField"
               => /\ CarriesEntries(control_data, items)
                  /\ Len(control_data.items) = 1
                  /\ ControlNetsOf(acquired) = models
                  /\ exit_stack = models
           /\ (/\ control_input.kind = "list"
               /\ Len(items) > 0
               /\ AllControlFields)
               => /\ CarriesEntries(control_data, items)
                  /\ ControlNetsOf(acquired) = models
                  /\ exit_stack = models

\* prep_control_data has returned on a list of two different ControlFields
\* that name the same model: two ControlNetData, the model acquired twice
C12_Witness ==
    /\ pc = "init_scheduler"
    /\ node.control.kind = "list"
    /\ Len(node.control.items) = 2
    /\ node.control.items[1].is_control_field
    /\ node.control.items[2].is_control_field
    /\ node.control.items[1] # node.control.items[2]
    /\ node.control.items[1].control_model = node.control.items[2].control_model
    /\ Len(control_data.items) = 2
    /\ control_data.items[1].weight # control_data.items[2].weight
    /\ exit_stack = <<"cn_a", "cn_a">>

====
